---- MODULE Spec2Model ----
(***************************************************************************)
(* Booking front end: ApiService.request, the useBooking and useMagicLink  *)
(* hooks, the BookingForm and BookingDetails components, and the booking   *)
(* back end they talk to (state machine, store, magic-link resolver).      *)
(***************************************************************************)
EXTENDS Integers, Sequences, FiniteSets, Bags, TLC

(* ---------------------------------------------------------------------- *)
(* Bounds                                                                 *)
(* ---------------------------------------------------------------------- *)
\* requests the clients issue in one run of Spec
MaxReq == 4
\* bookings the store holds in one run of Spec
MaxBookings == 1
\* requests issued in one run of SpecMagic
MaxMagicReq == 2
\* submits PaymentInterface accepts in one run of SpecPay
MaxAttempts == 3
\* actions started on the useBooking instance in one run of SpecHook
MaxHookReq == 3

(* ---------------------------------------------------------------------- *)
(* JavaScript values                                                      *)
(* ---------------------------------------------------------------------- *)
\* null / undefined / an absent optional field
Null == "null"
\* an absent optional object
None == << >>
Some(x) == << x >>
\* an absent optional number
NoNum == -1

\* JavaScript truthiness of a string-or-absent value
Falsy(x) == x = Null \/ x = ""

\* a ?? b: only an absent value falls through
OrElseNullish(a, b) == IF a = Null THEN b ELSE a

\* a || b on string-or-absent values
OrElse(a, b) == IF Falsy(a) THEN b ELSE a

(* ---------------------------------------------------------------------- *)
(* ApiService.request                                                     *)
(* ---------------------------------------------------------------------- *)
HttpStatuses == {200, 400, 404, 500}
HttpOk(status) == status >= 200 /\ status <= 299

HttpErrorMessage(status) == "HTTP error! status: " \o ToString(status)

\* messages of the errors the platform raises
FetchFailedMessage == "Failed to fetch"
JsonSyntaxMessage == "Unexpected token < in JSON at position 0"
NullBodyMessage == "Cannot read properties of null (reading 'error')"

\* a thrown value: an Error carrying a message, or some other value
ErrorOf(msg) == [isError |-> TRUE, message |-> msg]
NonError == [isError |-> FALSE, message |-> Null]

\* a parsed JSON body; isNull stands for the JSON document null
JsonBody(success, data, error) ==
    [isNull |-> FALSE, success |-> success, data |-> data, error |-> error]
NullBody == [isNull |-> TRUE, success |-> FALSE, data |-> None, error |-> Null]

\* what fetch and response.json() do for one request
RejectOutcome(thrown) == [kind |-> "reject", thrown |-> thrown]
NonJsonOutcome(status) == [kind |-> "nonjson", status |-> status]
JsonOutcome(status, body) == [kind |-> "json", status |-> status, body |-> body]
HangOutcome == [kind |-> "hang"]
PendingOutcome == [kind |-> "pending"]

\* the try block of request: what it returns or throws
RequestTry(o) ==
    CASE o.kind = "reject" -> [threw |-> TRUE, thrown |-> o.thrown, value |-> NullBody]
      [] o.kind = "nonjson" ->
            [threw |-> TRUE, thrown |-> ErrorOf(JsonSyntaxMessage), value |-> NullBody]
      [] o.kind = "json" /\ ~HttpOk(o.status) ->
            IF o.body.isNull
            THEN [threw |-> TRUE, thrown |-> ErrorOf(NullBodyMessage), value |-> NullBody]
            ELSE [threw |-> TRUE,
                  thrown |-> ErrorOf(OrElse(o.body.error, HttpErrorMessage(o.status))),
                  value |-> NullBody]
      [] OTHER -> [threw |-> FALSE, thrown |-> NonError, value |-> o.body]

\* the catch block of request: the typed failure built from a thrown value
RequestCatch(thrown) ==
    JsonBody(FALSE, None,
             IF thrown.isError THEN thrown.message ELSE "Unknown error occurred")

\* the promise request returns: state and value
request(o) ==
    IF o.kind \in {"hang", "pending"}
    THEN [settled |-> "pending", value |-> NullBody]
    ELSE LET t == RequestTry(o)
         IN  IF t.threw
             THEN [settled |-> "fulfilled", value |-> RequestCatch(t.thrown)]
             ELSE [settled |-> "fulfilled", value |-> t.value]

(* ---------------------------------------------------------------------- *)
(* State                                                                  *)
(* ---------------------------------------------------------------------- *)
VARIABLES
    store,          \* back end: booking record per store slot
    nbookings,      \* back end: number of bookings created
    clock,          \* back end: current time
    resolved,       \* back end: resolve requests served per store slot
    events,         \* back end: analytics events recorded per store slot
    hook,           \* useBooking state of each component instance
    uuid,           \* uuid prop of each BookingDetails instance
    mounted,        \* whether the instance's useEffect has run
    paymentLoading, \* paymentLoading state of each BookingDetails instance
    timers,         \* pending setTimeout refetches of each instance
    sentPayments,   \* bodies of the payment updates sent so far
    onSubmitCalls,  \* invocations of the onSubmit prop of BookingForm
    onPaymentUpdateCalls, \* invocations of the onPaymentUpdate prop
    net,            \* requests in flight
    nreq,           \* requests issued so far
    ml,             \* useMagicLink state
    apiIn,          \* ApiService.request alone: what the transport does
    apiOut,         \* ApiService.request alone: the promise it returned
    processing,     \* PaymentInterface: processing state
    paymentMethod,  \* PaymentInterface: paymentMethod state
    cardFilled,     \* PaymentInterface: the required card inputs are filled
    payTimers,      \* PaymentInterface: attempts whose setTimeout is pending
    attempts,       \* PaymentInterface: submits accepted so far
    onPaymentCompleteCalls, \* invocations of the onPaymentComplete prop
    onCancelCalls,  \* attempts that were pending when onCancel was invoked
    onPaymentCalls, \* invocations of the onPayment prop of BookingCard
    detailsFrom,    \* per instance: the request whose response bookingDetails holds
    unrefetched     \* per view: actions answered with success and not yet refetched

vars == << store, nbookings, clock, resolved, events, hook, uuid, mounted,
           paymentLoading, timers, sentPayments, onSubmitCalls,
           onPaymentUpdateCalls, net, nreq, ml, apiIn, apiOut, processing,
           paymentMethod, cardFilled, payTimers, attempts,
           onPaymentCompleteCalls, onCancelCalls, onPaymentCalls,
           detailsFrom, unrefetched >>

backendVars == << store, nbookings, clock, resolved, events >>
callbackVars == << onSubmitCalls, onPaymentUpdateCalls >>
pageVars == << uuid, mounted, paymentLoading, timers, sentPayments,
              callbackVars >>
apiVars == << apiIn, apiOut >>
payVars == << processing, paymentMethod, cardFilled, payTimers, attempts,
             onPaymentCompleteCalls, onCancelCalls, onPaymentCalls >>

\* component instances holding a useBooking hook
Pages == {"page1", "page2"}
Form == "form"
Hooks == Pages \cup {Form}

Slots == 1 .. MaxBookings

(* ---------------------------------------------------------------------- *)
(* Identifier Generator and Booking record                                *)
(* ---------------------------------------------------------------------- *)
UuidOf(n) == << "uuid", n >>
BookingIdOf(n) == << "booking", n >>
MagicLinkIdOf(n) == << "magic", n >>
NoId == << "none", 0 >>
UnknownToken == << "magic", 0 >>

BookingStatuses == {"pending_confirmation", "confirmed", "completed", "cancelled"}
PaymentStatuses == {"pending", "processing", "completed", "failed", "refunded"}

\* the status graph
StatusEdges ==
    { << "pending_confirmation", "confirmed" >>, << "confirmed", "completed" >>,
      << "pending_confirmation", "cancelled" >>, << "confirmed", "cancelled" >> }

\* the paymentStatus graph
PaymentEdges ==
    { << "pending", "processing" >>, << "processing", "completed" >>,
      << "processing", "failed" >>, << "completed", "refunded" >>,
      << "failed", "pending" >> }

\* the payment moves the store accepts: the graph, and the direct moves of
\* the end-to-end scenario (a pending payment updated to completed)
AcceptedPaymentMoves ==
    PaymentEdges \cup { << "pending", "completed" >>, << "pending", "failed" >> }

\* a store slot that holds no booking
NoBooking ==
    [exists |-> FALSE, id |-> NoId, bookingId |-> NoId, magicLinkId |-> NoId,
     status |-> "pending_confirmation", paymentStatus |-> "pending",
     paymentId |-> NoNum, paymentAmount |-> NoNum, paymentCurrency |-> Null,
     createdAt |-> 0, confirmedAt |-> 0, paymentUpdatedAt |-> 0,
     lastAccessedAt |-> 0, accessCount |-> 0]

\* a create that stores the booking as already confirmed
NewBookingStamped(n, now) ==
    [NoBooking EXCEPT !.exists = TRUE, !.id = UuidOf(n),
                      !.bookingId = BookingIdOf(n),
                      !.magicLinkId = MagicLinkIdOf(n), !.createdAt = now,
                      !.confirmedAt = now]

\* the record create stores
NewBooking(n, now) ==
    [NoBooking EXCEPT !.exists = TRUE, !.id = UuidOf(n),
                      !.bookingId = BookingIdOf(n),
                      !.magicLinkId = MagicLinkIdOf(n), !.createdAt = now]

\* slot of the booking with this uuid, 0 when there is none
SlotOfUuid(key) ==
    IF \E n \in Slots : store[n].exists /\ store[n].id = key
    THEN CHOOSE n \in Slots : store[n].exists /\ store[n].id = key
    ELSE 0

\* slot of the booking with this magic-link token, 0 when there is none
SlotOfToken(key) ==
    IF \E n \in Slots : store[n].exists /\ store[n].magicLinkId = key
    THEN CHOOSE n \in Slots : store[n].exists /\ store[n].magicLinkId = key
    ELSE 0

NotFound == JsonOutcome(404, JsonBody(FALSE, None, "Booking not found"))
InvalidStateTransition ==
    JsonOutcome(400, JsonBody(FALSE, None, "Invalid state transition"))
Success(data) == JsonOutcome(200, JsonBody(TRUE, data, Null))

(* ---------------------------------------------------------------------- *)
(* Booking State Machine and Booking Store                                *)
(* ---------------------------------------------------------------------- *)
\* confirm is legal on a pending booking and a no-op on a confirmed one
ConfirmAccepted(b) == b.status \in {"pending_confirmation", "confirmed"}

\* a confirm that stamps confirmedAt every time
ConfirmApplyRestamp(b, now) ==
    [b EXCEPT !.status = "confirmed", !.confirmedAt = now]

ConfirmApply(b, now) ==
    IF b.status = "pending_confirmation"
    THEN [b EXCEPT !.status = "confirmed", !.confirmedAt = now]
    ELSE b

\* a payment update is conditional on the current state
PaymentAccepted(b, body) ==
    /\ b.status # "cancelled"
    /\ << b.paymentStatus, body.paymentStatus >> \in AcceptedPaymentMoves

\* a payment update that writes the status and leaves the payment fields
PaymentApplyStatusOnly(b, body, now) ==
    [b EXCEPT !.paymentStatus = body.paymentStatus, !.paymentUpdatedAt = now]

\* the payment fields are set together with the status change
PaymentApply(b, body, now) ==
    [b EXCEPT !.paymentStatus = body.paymentStatus,
              !.paymentId = body.paymentId,
              !.paymentAmount = body.amount,
              !.paymentCurrency = body.currency,
              !.paymentUpdatedAt = now]

\* the wire form of a created booking
CreateData(b) ==
    [bookingId |-> b.bookingId, uuid |-> b.id, magicLink |-> b.magicLinkId,
     status |-> b.status, message |-> "Booking created successfully"]

(* ---------------------------------------------------------------------- *)
(* useBooking                                                             *)
(* ---------------------------------------------------------------------- *)
InitialHook ==
    [loading |-> FALSE, error |-> Null, success |-> FALSE,
     bookingResponse |-> None, bookingDetails |-> None]

BookingOps == {"create", "confirm", "payment", "details"}

\* the message a failure without an error string gets
DefaultError(op) ==
    CASE op = "create" -> "Failed to create booking"
      [] op = "confirm" -> "Failed to confirm booking"
      [] op = "payment" -> "Failed to update payment"
      [] OTHER -> "Failed to fetch booking details"

\* the first setState of an action, before the request is sent
HookStart(s, op) ==
    IF op = "create"
    THEN [s EXCEPT !.loading = TRUE, !.error = Null, !.success = FALSE]
    ELSE [s EXCEPT !.loading = TRUE, !.error = Null]

\* whether the action takes its success branch on this response
HookSucceeds(op, resp) ==
    /\ ~resp.isNull
    /\ resp.success
    /\ op \in {"create", "details"} => resp.data # None

\* a failure branch that also drops the data held
HookFailClears(s, op, resp) ==
    [s EXCEPT !.loading = FALSE,
              !.error = OrElse(resp.error, DefaultError(op)),
              !.success = FALSE,
              !.bookingResponse = None,
              !.bookingDetails = None]

\* the setState of the else branch and of the catch block
HookFail(s, op, resp) ==
    [s EXCEPT !.loading = FALSE,
              !.error = IF resp.isNull
                        THEN "Cannot read properties of null (reading 'success')"
                        ELSE OrElse(resp.error, DefaultError(op)),
              !.success = FALSE]

\* a success branch that does not store the data of the response
HookSuccessWithoutData(s, op, resp) ==
    [s EXCEPT !.loading = FALSE, !.success = TRUE, !.error = Null]

\* a success branch that leaves error as it is
HookSuccessKeepsError(s, op, resp) ==
    CASE op = "create" ->
            [s EXCEPT !.loading = FALSE, !.success = TRUE,
                      !.bookingResponse = resp.data]
      [] op = "details" ->
            [s EXCEPT !.loading = FALSE, !.success = TRUE,
                      !.bookingDetails = resp.data]
      [] OTHER -> [s EXCEPT !.loading = FALSE, !.success = TRUE]

\* the setState of the success branch
HookSuccess(s, op, resp) ==
    CASE op = "create" ->
            [s EXCEPT !.loading = FALSE, !.success = TRUE,
                      !.bookingResponse = resp.data, !.error = Null]
      [] op = "details" ->
            [s EXCEPT !.loading = FALSE, !.success = TRUE,
                      !.bookingDetails = resp.data, !.error = Null]
      [] OTHER -> [s EXCEPT !.loading = FALSE, !.success = TRUE, !.error = Null]

\* the setState after the awaited response
HookSettle(s, op, resp) ==
    IF HookSucceeds(op, resp) THEN HookSuccess(s, op, resp) ELSE HookFail(s, op, resp)

(* ---------------------------------------------------------------------- *)
(* BookingDetails                                                         *)
(* ---------------------------------------------------------------------- *)
\* a component that renders held booking data before it looks at error
ViewDetailsFirst(s) ==
    IF s.loading THEN "loading"
    ELSE IF s.bookingDetails # None THEN "details"
    ELSE IF ~Falsy(s.error) THEN "error"
    ELSE "empty"

\* which of the four returns of the component renders
View(s) ==
    IF s.loading THEN "loading"
    ELSE IF ~Falsy(s.error) THEN "error"
    ELSE IF s.bookingDetails = None THEN "empty"
    ELSE "details"

Held(p) == hook[p].bookingDetails[1]

\* the Confirm Booking button is rendered and enabled
ConfirmButton(p) ==
    /\ View(hook[p]) = "details"
    /\ Held(p).status = "pending_confirmation"
    /\ ~hook[p].loading

\* the payment buttons rendered for every confirmed booking
PaymentButtonsAnyPayment(p) ==
    /\ View(hook[p]) = "details"
    /\ Held(p).status = "confirmed"
    /\ ~paymentLoading[p]

\* the Mark Paid / Mark Failed buttons are rendered and enabled
PaymentButtons(p) ==
    /\ View(hook[p]) = "details"
    /\ Held(p).status = "confirmed"
    /\ Held(p).paymentStatus = "pending"
    /\ ~paymentLoading[p]

\* the guard of handleConfirmBooking
CanConfirm(p) ==
    /\ uuid[p] # NoId
    /\ hook[p].bookingDetails # None
    /\ Held(p).status = "pending_confirmation"

\* a body that carries amount and currency whatever the status
PaymentBodyWithAmount(status, now) ==
    [paymentStatus |-> status, paymentId |-> now, amount |-> 100,
     currency |-> "USD"]

\* the request body handlePaymentUpdate builds; now stands for Date.now()
PaymentBody(status, now) ==
    [paymentStatus |-> status,
     paymentId |-> now,
     amount |-> IF status = "completed" THEN 100 ELSE NoNum,
     currency |-> IF status = "completed" THEN "USD" ELSE Null]

NoBody == [paymentStatus |-> Null, paymentId |-> NoNum, amount |-> NoNum,
           currency |-> Null]

(* ---------------------------------------------------------------------- *)
(* BookingForm                                                            *)
(* ---------------------------------------------------------------------- *)
\* String.prototype.trim on the strings the form fields take
Trim(str) == IF str \in {"", " ", "  "} THEN "" ELSE str

\* a Date whose toISOString never throws
ValidDateAlways(str) == TRUE

\* whether new Date(str) is a valid date, so that toISOString returns
ValidDate(str) == str \in {"2025-03-01T10:00", "2025-03-01T10:00:00.000Z"}

\* new Date(str).toISOString() of a datetime-local value
ToISOString(str) ==
    IF str = "2025-03-01T10:00" THEN "2025-03-01T10:00:00.000Z" ELSE str

AppointmentTypes ==
    {"CONSULTATION", "TUTORIAL", "ASSESSMENT", "GROUP_SESSION", "WORKSHOP"}

\* the values the user leaves in the form
FormInputs ==
    [userName : {"", " ", "Jane Doe"},
     userPhone : {"", "+15551234567"},
     appointmentType : {"CONSULTATION", "WORKSHOP"},
     appointmentDate : {"", "not a date", "2025-03-01T10:00"}]

\* every value the form fields can be left with on submit
AllFormInputs ==
    [userName : {"", " ", "Jane Doe"},
     userPhone : {"", "  ", "+15551234567"},
     appointmentType : AppointmentTypes,
     appointmentDate : {"", "not a date", "2025-03-01T10:00"}]

\* early returns that test the fields without trim()
FormValidUntrimmed(fd) ==
    /\ fd.userName # ""
    /\ fd.userPhone # ""
    /\ fd.appointmentDate # ""

\* the three early returns of handleSubmit
FormValid(fd) ==
    /\ Trim(fd.userName) # ""
    /\ Trim(fd.userPhone) # ""
    /\ fd.appointmentDate # ""

\* the data handleSubmit passes to createBooking
FormattedData(fd) ==
    [fd EXCEPT !.appointmentDate = ToISOString(fd.appointmentDate)]

\* the success panel with the magic link is rendered
SuccessPanel(s) ==
    /\ s.success \/ ~Falsy(s.error)
    /\ s.success
    /\ s.bookingResponse # None

\* the Booking Failed panel is rendered
ErrorPanel(s) ==
    /\ s.success \/ ~Falsy(s.error)
    /\ ~Falsy(s.error)

(* ---------------------------------------------------------------------- *)
(* Requests in flight                                                     *)
(* ---------------------------------------------------------------------- *)
Request(id, h, op, key, body) ==
    [id |-> id, h |-> h, op |-> op, key |-> key, body |-> body,
     outcome |-> PendingOutcome]

InFlight(h, op) == { r \in net : r.h = h /\ r.op = op }

\* an action of useBooking up to its await: setState, then the request
StartCall(h, op, key, body, s) ==
    /\ nreq < MaxReq
    /\ nreq' = nreq + 1
    /\ net' = net \cup { Request(nreq + 1, h, op, key, body) }
    /\ hook' = [hook EXCEPT ![h] = HookStart(s, op)]

\* what the transport does when the request is not answered by the back end
Faults ==
    { RejectOutcome(ErrorOf(FetchFailedMessage)),
      NonJsonOutcome(500),
      JsonOutcome(500, JsonBody(FALSE, None, Null)),
      HangOutcome }

Answer(r, o) == net' = (net \ {r}) \cup { [r EXCEPT !.outcome = o] }

(* ---------------------------------------------------------------------- *)
(* Actions of Spec                                                        *)
(* ---------------------------------------------------------------------- *)
\* BookingForm.handleSubmit up to the await of createBooking
handleSubmit(fd) ==
    /\ ~hook[Form].loading
    /\ IF FormValid(fd) /\ ValidDate(fd.appointmentDate)
       THEN /\ nbookings + Cardinality(InFlight(Form, "create")) < MaxBookings
            /\ StartCall(Form, "create", NoId, FormattedData(fd), InitialHook)
       ELSE /\ hook' = [hook EXCEPT ![Form] = InitialHook]
            /\ UNCHANGED << net, nreq >>
    /\ detailsFrom' = [detailsFrom EXCEPT ![Form] = 0]
    /\ UNCHANGED << backendVars, pageVars, ml, apiVars, payVars, unrefetched >>

\* the useEffect of BookingDetails
PageMount(p) ==
    /\ ~mounted[p]
    /\ uuid[p] # NoId
    /\ mounted' = [mounted EXCEPT ![p] = TRUE]
    /\ StartCall(p, "details", uuid[p], NoBody, hook[p])
    /\ UNCHANGED << backendVars, uuid, paymentLoading, timers, sentPayments,
                    callbackVars, ml, apiVars, payVars, detailsFrom, unrefetched >>

\* handleConfirmBooking with the status checks of button and handler left out
handleConfirmAnyStatus(p) ==
    /\ View(hook[p]) = "details"
    /\ uuid[p] # NoId
    /\ StartCall(p, "confirm", uuid[p], NoBody, hook[p])
    /\ UNCHANGED << backendVars, pageVars, ml, apiVars, payVars,
                    detailsFrom, unrefetched >>

\* handleConfirmBooking up to the await of confirmBooking
handleConfirmBooking(p) ==
    /\ ConfirmButton(p)
    /\ CanConfirm(p)
    /\ StartCall(p, "confirm", uuid[p], NoBody, hook[p])
    /\ UNCHANGED << backendVars, pageVars, ml, apiVars, payVars,
                    detailsFrom, unrefetched >>

\* handlePaymentUpdate up to the await of updatePayment
handlePaymentUpdate(p, status) ==
    /\ PaymentButtons(p)
    /\ uuid[p] # NoId
    /\ paymentLoading' = [paymentLoading EXCEPT ![p] = TRUE]
    /\ StartCall(p, "payment", uuid[p], PaymentBody(status, nreq + 1), hook[p])
    /\ sentPayments' = sentPayments \cup { PaymentBody(status, nreq + 1) }
    /\ UNCHANGED << backendVars, uuid, mounted, timers, callbackVars, ml,
                    apiVars, payVars, detailsFrom, unrefetched >>

\* the setTimeout callback: getBookingDetails(uuid)
TimerFire(p) ==
    /\ timers[p] > 0
    /\ timers' = [timers EXCEPT ![p] = @ - 1]
    /\ StartCall(p, "details", uuid[p], NoBody, hook[p])
    /\ UNCHANGED << backendVars, uuid, mounted, paymentLoading, sentPayments,
                    callbackVars, ml, apiVars, payVars, detailsFrom, unrefetched >>

\* the back end serves a request of the booking API
Serve(r) ==
    /\ r \in net
    /\ r.op \in BookingOps
    /\ r.outcome.kind = "pending"
    /\ clock' = clock + 1
    /\ LET n == SlotOfUuid(r.key)
           now == clock + 1
       IN  CASE r.op = "create" ->
                    /\ nbookings < MaxBookings
                    /\ nbookings' = nbookings + 1
                    /\ store' = [store EXCEPT ![nbookings + 1] =
                                     NewBooking(nbookings + 1, now)]
                    /\ Answer(r, Success(Some(CreateData(
                                     NewBooking(nbookings + 1, now)))))
             [] r.op = "details" ->
                    /\ Answer(r, IF n = 0 THEN NotFound
                                 ELSE Success(Some(store[n])))
                    /\ UNCHANGED << store, nbookings >>
             [] r.op = "confirm" ->
                    /\ IF n = 0
                       THEN Answer(r, NotFound) /\ UNCHANGED store
                       ELSE IF ~ConfirmAccepted(store[n])
                       THEN Answer(r, InvalidStateTransition) /\ UNCHANGED store
                       ELSE /\ store' = [store EXCEPT ![n] = ConfirmApply(@, now)]
                            /\ Answer(r, Success(None))
                    /\ UNCHANGED nbookings
             [] OTHER ->
                    /\ IF n = 0
                       THEN Answer(r, NotFound) /\ UNCHANGED store
                       ELSE IF ~PaymentAccepted(store[n], r.body)
                       THEN Answer(r, InvalidStateTransition) /\ UNCHANGED store
                       ELSE /\ store' = [store EXCEPT ![n] =
                                             PaymentApply(@, r.body, now)]
                            /\ Answer(r, Success(None))
                    /\ UNCHANGED nbookings
    /\ UNCHANGED << resolved, events, hook, pageVars, nreq, ml, apiVars, payVars,
                    detailsFrom, unrefetched >>

\* the transport fails the request, or never answers it
NetFault(r, o) ==
    /\ r \in net
    /\ r.op \in BookingOps
    /\ r.outcome.kind = "pending"
    /\ Answer(r, o)
    /\ UNCHANGED << backendVars, hook, pageVars, nreq, ml, apiVars, payVars,
                    detailsFrom, unrefetched >>

\* the request whose response each instance holds in bookingDetails, once r
\* has completed: getBookingDetails replaces bookingDetails on success only
HeldFrom(r) ==
    IF r.op = "details" /\ HookSucceeds(r.op, request(r.outcome).value)
    THEN [detailsFrom EXCEPT ![r.h] = r.id]
    ELSE detailsFrom

\* the confirm and payment actions of each view that were answered with
\* success and whose result no later getBookingDetails response has shown yet
Unrefetched(r) ==
    IF ~HookSucceeds(r.op, request(r.outcome).value) THEN unrefetched
    ELSE IF r.op = "details" THEN [unrefetched EXCEPT ![r.h] = {}]
    ELSE IF r.op \in {"confirm", "payment"}
         THEN [unrefetched EXCEPT ![r.h] = @ \cup {r.op}]
    ELSE unrefetched

\* a continuation that schedules the refetch after a successful action only
CompleteRefetchOnSuccess(r) ==
    /\ r \in net
    /\ r.op \in BookingOps
    /\ request(r.outcome).settled = "fulfilled"
    /\ net' = net \ {r}
    /\ hook' = [hook EXCEPT ![r.h] = HookSettle(@, r.op, request(r.outcome).value)]
    /\ timers' = IF /\ r.op \in {"confirm", "payment"}
                    /\ HookSucceeds(r.op, request(r.outcome).value)
                 THEN [timers EXCEPT ![r.h] = @ + 1] ELSE timers
    /\ paymentLoading' = IF r.op = "payment"
                         THEN [paymentLoading EXCEPT ![r.h] = FALSE]
                         ELSE paymentLoading
    /\ onSubmitCalls' = IF r.op = "create"
                        THEN onSubmitCalls (+) SetToBag({ r.body })
                        ELSE onSubmitCalls
    /\ onPaymentUpdateCalls' =
          IF r.op = "payment"
          THEN onPaymentUpdateCalls
                 (+) SetToBag({ << r.key, r.body.paymentStatus >> })
          ELSE onPaymentUpdateCalls
    /\ detailsFrom' = HeldFrom(r)
    /\ unrefetched' = Unrefetched(r)
    /\ UNCHANGED << backendVars, uuid, mounted, sentPayments, nreq, ml, apiVars,
                    payVars >>

\* the rest of the action and of its caller, after the await
Complete(r) ==
    /\ r \in net
    /\ r.op \in BookingOps
    /\ request(r.outcome).settled = "fulfilled"
    /\ net' = net \ {r}
    /\ hook' = [hook EXCEPT ![r.h] = HookSettle(@, r.op, request(r.outcome).value)]
    /\ timers' = IF r.op \in {"confirm", "payment"}
                 THEN [timers EXCEPT ![r.h] = @ + 1] ELSE timers
    /\ paymentLoading' = IF r.op = "payment"
                         THEN [paymentLoading EXCEPT ![r.h] = FALSE]
                         ELSE paymentLoading
    /\ onSubmitCalls' = IF r.op = "create"
                        THEN onSubmitCalls (+) SetToBag({ r.body })
                        ELSE onSubmitCalls
    /\ onPaymentUpdateCalls' =
          IF r.op = "payment"
          THEN onPaymentUpdateCalls
                 (+) SetToBag({ << r.key, r.body.paymentStatus >> })
          ELSE onPaymentUpdateCalls
    /\ detailsFrom' = HeldFrom(r)
    /\ unrefetched' = Unrefetched(r)
    /\ UNCHANGED << backendVars, uuid, mounted, sentPayments, nreq, ml, apiVars,
                    payVars >>

\* another caller of the API cancels or completes a booking
Transition(n, to) ==
    /\ store[n].exists
    /\ to \in {"completed", "cancelled"}
    /\ << store[n].status, to >> \in StatusEdges
    /\ store' = [store EXCEPT ![n].status = to]
    /\ clock' = clock + 1
    /\ UNCHANGED << nbookings, resolved, events, hook, pageVars, net, nreq, ml,
                    apiVars, payVars, detailsFrom, unrefetched >>

(* ---------------------------------------------------------------------- *)
(* useMagicLink                                                           *)
(* ---------------------------------------------------------------------- *)
InitialMagic ==
    [loading |-> FALSE, error |-> Null, preview |-> None, analytics |-> None]

(* ---------------------------------------------------------------------- *)
(* Spec: the booking API, BookingForm and two BookingDetails views        *)
(* ---------------------------------------------------------------------- *)
\* the bookings the first store slot may hold when the pages are opened
InitBookings ==
    { NoBooking,
      NewBooking(1, 1),
      [NewBooking(1, 1) EXCEPT !.status = "confirmed", !.confirmedAt = 2] }

\* PaymentInterface and BookingCard as first rendered
IdlePay ==
    /\ processing = FALSE
    /\ paymentMethod = "card"
    /\ cardFilled = FALSE
    /\ payTimers = {}
    /\ attempts = 0
    /\ onPaymentCompleteCalls = {}
    /\ onCancelCalls = {}
    /\ onPaymentCalls = {}
    /\ detailsFrom = [h \in Hooks |-> 0]
    /\ unrefetched = [h \in Hooks |-> {}]

IdleApi ==
    /\ apiIn = [endpoint |-> "/health", outcome |-> PendingOutcome]
    /\ apiOut = request(PendingOutcome)

Init ==
    /\ \E b \in InitBookings :
          /\ store = [n \in Slots |-> IF n = 1 THEN b ELSE NoBooking]
          /\ nbookings = IF b.exists THEN 1 ELSE 0
    /\ clock = 2
    /\ resolved = [n \in Slots |-> 0]
    /\ events = [n \in Slots |-> << >>]
    /\ hook = [h \in Hooks |-> InitialHook]
    /\ uuid \in [Pages -> { UuidOf(n) : n \in Slots }]
    /\ mounted = [p \in Pages |-> FALSE]
    /\ paymentLoading = [p \in Pages |-> FALSE]
    /\ timers = [p \in Pages |-> 0]
    /\ sentPayments = {}
    /\ onSubmitCalls = EmptyBag
    /\ onPaymentUpdateCalls = EmptyBag
    /\ net = {}
    /\ nreq = 0
    /\ ml = InitialMagic
    /\ IdleApi
    /\ IdlePay

Next ==
    \/ \E fd \in FormInputs : handleSubmit(fd)
    \/ \E p \in Pages : PageMount(p)
    \/ \E p \in Pages : handleConfirmBooking(p)
    \/ \E p \in Pages, status \in {"completed", "failed"} :
          handlePaymentUpdate(p, status)
    \/ \E p \in Pages : TimerFire(p)
    \/ \E r \in net : Serve(r)
    \/ \E r \in net, o \in Faults : NetFault(r, o)
    \/ \E r \in net : Complete(r)
    \/ \E n \in Slots, to \in BookingStatuses : Transition(n, to)

Spec == Init /\ [][Next]_vars

(* ---------------------------------------------------------------------- *)
(* SpecForm: BookingForm alone, with every value of its fields            *)
(* ---------------------------------------------------------------------- *)
InitForm ==
    /\ store = [n \in Slots |-> NoBooking]
    /\ nbookings = 0
    /\ clock = 2
    /\ resolved = [n \in Slots |-> 0]
    /\ events = [n \in Slots |-> << >>]
    /\ hook = [h \in Hooks |-> InitialHook]
    /\ uuid = [p \in Pages |-> UuidOf(1)]
    /\ mounted = [p \in Pages |-> FALSE]
    /\ paymentLoading = [p \in Pages |-> FALSE]
    /\ timers = [p \in Pages |-> 0]
    /\ sentPayments = {}
    /\ onSubmitCalls = EmptyBag
    /\ onPaymentUpdateCalls = EmptyBag
    /\ net = {}
    /\ nreq = 0
    /\ ml = InitialMagic
    /\ IdleApi
    /\ IdlePay

NextForm ==
    \/ \E fd \in AllFormInputs : handleSubmit(fd)
    \/ \E r \in net : Serve(r)
    \/ \E r \in net, o \in Faults : NetFault(r, o)
    \/ \E r \in net : Complete(r)

SpecForm == InitForm /\ [][NextForm]_vars

(* ---------------------------------------------------------------------- *)
(* SpecApi: ApiService.request on every endpoint and transport outcome    *)
(* ---------------------------------------------------------------------- *)
Endpoints ==
    { "/api/booking/create", "/api/booking/confirm/{uuid}",
      "/api/booking/payment/{uuid}", "/api/booking/{uuid}",
      "/appt/{magicLinkId}/preview", "/appt/{magicLinkId}/track",
      "/appt/{magicLinkId}/analytics", "/health" }

\* the bodies a server or a proxy may send
ApiBodies ==
    { JsonBody(ok, data, error) :
        ok \in BOOLEAN, data \in {None, Some("payload")},
        error \in {Null, "", "Booking not found"} } \cup { NullBody }

ApiOutcomes ==
    { RejectOutcome(t) :
        t \in {ErrorOf(FetchFailedMessage), ErrorOf("The user aborted a request."),
               NonError} }
    \cup { NonJsonOutcome(st) : st \in HttpStatuses }
    \cup { JsonOutcome(st, b) : st \in HttpStatuses, b \in ApiBodies }
    \cup { HangOutcome }

InitApi ==
    /\ store = [n \in Slots |-> NoBooking]
    /\ nbookings = 0
    /\ clock = 2
    /\ resolved = [n \in Slots |-> 0]
    /\ events = [n \in Slots |-> << >>]
    /\ hook = [h \in Hooks |-> InitialHook]
    /\ uuid = [p \in Pages |-> UuidOf(1)]
    /\ mounted = [p \in Pages |-> FALSE]
    /\ paymentLoading = [p \in Pages |-> FALSE]
    /\ timers = [p \in Pages |-> 0]
    /\ sentPayments = {}
    /\ onSubmitCalls = EmptyBag
    /\ onPaymentUpdateCalls = EmptyBag
    /\ net = {}
    /\ nreq = 0
    /\ ml = InitialMagic
    /\ apiIn \in [endpoint : Endpoints, outcome : ApiOutcomes]
    /\ apiOut = request(PendingOutcome)
    /\ IdlePay

\* the promise of request settles
ApiRequest ==
    /\ apiOut.settled = "pending"
    /\ request(apiIn.outcome).settled # "pending"
    /\ apiOut' = request(apiIn.outcome)
    /\ UNCHANGED << backendVars, hook, pageVars, net, nreq, ml, apiIn, payVars,
                    detailsFrom, unrefetched >>

NextApi == ApiRequest

SpecApi == InitApi /\ [][NextApi]_vars

(* ---------------------------------------------------------------------- *)
(* SpecMagic: useMagicLink, the magic-link URL and the resolver           *)
(* ---------------------------------------------------------------------- *)
MagicOps == {"preview", "track", "analytics", "resolve"}
Browser == "browser"
MagicHook == "useMagicLink"

\* the magic-link ids the client is handed
Tokens == { MagicLinkIdOf(n) : n \in Slots } \cup { UnknownToken }

EventKinds == {"page_view", "link_click"}

\* the endpoint each ApiService method requests, and getMagicLinkUrl
\* previewMagicLink requesting the redirect URL itself
PreviewEndpointRedirect == "resolve"
PreviewEndpoint == "preview"
TrackEndpoint == "track"
AnalyticsEndpoint == "analytics"
MagicLinkUrl == "resolve"

\* the first setState of previewMagicLink and getAnalytics
MagicStart(s) == [s EXCEPT !.loading = TRUE, !.error = Null]

\* the setState of previewMagicLink after the awaited response
PreviewSettle(s, resp) ==
    IF ~resp.isNull /\ resp.success /\ resp.data # None
    THEN [s EXCEPT !.loading = FALSE, !.preview = resp.data, !.error = Null]
    ELSE [s EXCEPT !.loading = FALSE,
                   !.error = IF resp.isNull
                             THEN "Cannot read properties of null (reading 'success')"
                             ELSE OrElse(resp.error, "Failed to preview magic link")]

\* the setState of getAnalytics after the awaited response
AnalyticsSettle(s, resp) ==
    IF ~resp.isNull /\ resp.success
    THEN [s EXCEPT !.loading = FALSE, !.analytics = resp.data, !.error = Null]
    ELSE [s EXCEPT !.loading = FALSE,
                   !.error = IF resp.isNull
                             THEN "Cannot read properties of null (reading 'success')"
                             ELSE OrElse(resp.error, "Failed to fetch analytics")]

\* a trackEvent that reports a failed request like the other actions do
TrackSettleSurfacing(s, resp) ==
    IF ~resp.isNull /\ resp.success
    THEN s
    ELSE [s EXCEPT !.error = OrElse(resp.error, "Failed to track event")]

\* trackEvent after the awaited response: no state is set
TrackSettle(s, resp) == s

\* the copies of one request that are in flight together are numbered
CopyId(h, endpoint, token, body) ==
    LET used == { r.id : r \in { q \in net : /\ q.h = h /\ q.op = endpoint
                                             /\ q.key = token /\ q.body = body } }
    IN  CHOOSE i \in 1 .. (MaxMagicReq + 1) :
            /\ i \notin used
            /\ \A j \in 1 .. (i - 1) : j \in used

\* the request is issued
SendMagic(h, endpoint, token, body) ==
    /\ nreq < MaxMagicReq
    /\ nreq' = nreq + 1
    /\ net' = net \cup { Request(CopyId(h, endpoint, token, body), h, endpoint,
                                  token, body) }

previewMagicLink(token) ==
    /\ ml' = MagicStart(ml)
    /\ SendMagic(MagicHook, PreviewEndpoint, token, NoBody)
    /\ UNCHANGED << backendVars, hook, pageVars, apiVars, payVars,
                    detailsFrom, unrefetched >>

trackEvent(token, kind) ==
    /\ SendMagic(MagicHook, TrackEndpoint, token, [event |-> kind])
    /\ UNCHANGED << backendVars, hook, pageVars, ml, apiVars, payVars,
                    detailsFrom, unrefetched >>

getAnalytics(token) ==
    /\ ml' = MagicStart(ml)
    /\ SendMagic(MagicHook, AnalyticsEndpoint, token, NoBody)
    /\ UNCHANGED << backendVars, hook, pageVars, apiVars, payVars,
                    detailsFrom, unrefetched >>

MagicClearState ==
    /\ ml' = InitialMagic
    /\ UNCHANGED << backendVars, hook, pageVars, net, nreq, apiVars, payVars,
                    detailsFrom, unrefetched >>

\* the holder of a magic link opens getMagicLinkUrl(token)
OpenMagicLink(token) ==
    /\ SendMagic(Browser, MagicLinkUrl, token, NoBody)
    /\ UNCHANGED << backendVars, hook, pageVars, ml, apiVars, payVars,
                    detailsFrom, unrefetched >>

\* an access recorded by writing 1 instead of incrementing
MarkAccessed(count) == 1

\* increment-and-fetch of the access count
IncrementAndFetch(count) == count + 1

\* resolve: count the access and build the redirect target
Resolve(b, now) ==
    [b EXCEPT !.accessCount = IncrementAndFetch(@), !.lastAccessedAt = now]

RedirectTarget(b) ==
    [bookingId |-> b.bookingId, status |-> b.status,
     payment_status |-> b.paymentStatus, source |-> "magic_link"]

\* preview: the same lookup, read only
Preview(b) ==
    [bookingId |-> b.bookingId, redirectUrl |-> RedirectTarget(b),
     status |-> b.status, bookingDetails |-> b]

\* summarize: a derived read
Summarize(b, evs) == [accessCount |-> b.accessCount, events |-> evs]

\* the back end serves a magic-link request
ServeMagic(r) ==
    /\ r \in net
    /\ r.op \in MagicOps
    /\ r.outcome.kind = "pending"
    /\ LET n == SlotOfToken(r.key)
           now == clock + 1
       IN  IF n = 0
           THEN /\ Answer(r, NotFound)
                /\ UNCHANGED << store, resolved, events, clock >>
           ELSE CASE r.op = "resolve" ->
                        /\ clock' = now
                        /\ store' = [store EXCEPT ![n] = Resolve(@, now)]
                        /\ resolved' = [resolved EXCEPT ![n] = @ + 1]
                        /\ Answer(r, Success(Some(RedirectTarget(store[n]))))
                        /\ UNCHANGED events
                  [] r.op = "preview" ->
                        /\ Answer(r, Success(Some(Preview(store[n]))))
                        /\ UNCHANGED << store, resolved, events, clock >>
                  [] r.op = "track" ->
                        /\ events' = [events EXCEPT ![n] = Append(@, r.body)]
                        /\ Answer(r, Success(None))
                        /\ UNCHANGED << store, resolved, clock >>
                  [] OTHER ->
                        /\ Answer(r, Success(Some(Summarize(store[n], events[n]))))
                        /\ UNCHANGED << store, resolved, events, clock >>
    /\ UNCHANGED << nbookings, hook, pageVars, nreq, ml, apiVars, payVars,
                    detailsFrom, unrefetched >>

NetFaultMagic(r, o) ==
    /\ r \in net
    /\ r.op \in MagicOps
    /\ r.outcome.kind = "pending"
    /\ Answer(r, o)
    /\ UNCHANGED << backendVars, hook, pageVars, nreq, ml, apiVars, payVars,
                    detailsFrom, unrefetched >>

\* the rest of the hook action after the await; the browser follows a redirect
CompleteMagic(r) ==
    /\ r \in net
    /\ r.op \in MagicOps
    /\ request(r.outcome).settled = "fulfilled"
    /\ net' = net \ {r}
    /\ ml' = CASE r.h = MagicHook /\ r.op = "preview" ->
                      PreviewSettle(ml, request(r.outcome).value)
               [] r.h = MagicHook /\ r.op = "analytics" ->
                      AnalyticsSettle(ml, request(r.outcome).value)
               [] r.h = MagicHook /\ r.op = "track" ->
                      TrackSettle(ml, request(r.outcome).value)
               [] OTHER -> ml
    /\ UNCHANGED << backendVars, hook, pageVars, nreq, apiVars, payVars,
                    detailsFrom, unrefetched >>

InitMagic ==
    /\ \E b \in InitBookings :
          /\ store = [n \in Slots |-> IF n = 1 THEN b ELSE NoBooking]
          /\ nbookings = IF b.exists THEN 1 ELSE 0
    /\ clock = 2
    /\ resolved = [n \in Slots |-> 0]
    /\ events = [n \in Slots |-> << >>]
    /\ hook = [h \in Hooks |-> InitialHook]
    /\ uuid = [p \in Pages |-> UuidOf(1)]
    /\ mounted = [p \in Pages |-> FALSE]
    /\ paymentLoading = [p \in Pages |-> FALSE]
    /\ timers = [p \in Pages |-> 0]
    /\ sentPayments = {}
    /\ onSubmitCalls = EmptyBag
    /\ onPaymentUpdateCalls = EmptyBag
    /\ net = {}
    /\ nreq = 0
    /\ ml = InitialMagic
    /\ IdleApi
    /\ IdlePay

NextMagic ==
    \/ \E token \in Tokens : previewMagicLink(token)
    \/ \E token \in Tokens, kind \in EventKinds : trackEvent(token, kind)
    \/ \E token \in Tokens : getAnalytics(token)
    \/ MagicClearState
    \/ \E token \in Tokens : OpenMagicLink(token)
    \/ \E r \in net : ServeMagic(r)
    \/ \E r \in net, o \in Faults : NetFaultMagic(r, o)
    \/ \E r \in net : CompleteMagic(r)

SpecMagic == InitMagic /\ [][NextMagic]_vars

(* ---------------------------------------------------------------------- *)
(* SpecRoute: the booking page opened by URL and by magic-link redirect   *)
(* ---------------------------------------------------------------------- *)
\* BookingDetailsPage: the uuid it hands to BookingDetails
BookingDetailsPage(bookingId) == bookingId

\* the route /booking/:bookingId renders the page with the path parameter
BookingDetailsRoute(p, bookingId) ==
    /\ uuid[p] = NoId
    /\ uuid' = [uuid EXCEPT ![p] = BookingDetailsPage(bookingId)]

\* the user opens /booking/{uuid} of a booking they know the uuid of
OpenBookingUrl(p, n) ==
    /\ store[n].exists
    /\ BookingDetailsRoute(p, store[n].id)
    /\ UNCHANGED << backendVars, hook, mounted, paymentLoading, timers,
                    sentPayments, callbackVars, net, nreq, ml, apiVars, payVars,
                    detailsFrom, unrefetched >>

\* the browser follows the redirect of a resolved magic link
FollowRedirect(r, p) ==
    /\ r \in net
    /\ r.h = Browser
    /\ r.op = MagicLinkUrl
    /\ r.outcome.kind = "json"
    /\ r.outcome.status = 200
    /\ net' = net \ {r}
    /\ BookingDetailsRoute(p, r.outcome.body.data[1].bookingId)
    /\ UNCHANGED << backendVars, hook, mounted, paymentLoading, timers,
                    sentPayments, callbackVars, nreq, ml, apiVars, payVars,
                    detailsFrom, unrefetched >>

InitRoute ==
    /\ \E b \in InitBookings :
          /\ store = [n \in Slots |-> IF n = 1 THEN b ELSE NoBooking]
          /\ nbookings = IF b.exists THEN 1 ELSE 0
    /\ clock = 2
    /\ resolved = [n \in Slots |-> 0]
    /\ events = [n \in Slots |-> << >>]
    /\ hook = [h \in Hooks |-> InitialHook]
    /\ uuid = [p \in Pages |-> NoId]
    /\ mounted = [p \in Pages |-> FALSE]
    /\ paymentLoading = [p \in Pages |-> FALSE]
    /\ timers = [p \in Pages |-> 0]
    /\ sentPayments = {}
    /\ onSubmitCalls = EmptyBag
    /\ onPaymentUpdateCalls = EmptyBag
    /\ net = {}
    /\ nreq = 0
    /\ ml = InitialMagic
    /\ IdleApi
    /\ IdlePay

NextRoute ==
    \/ \E token \in Tokens : OpenMagicLink(token)
    \/ \E r \in net : ServeMagic(r)
    \/ \E r \in net, p \in Pages : FollowRedirect(r, p)
    \/ \E p \in Pages, n \in Slots : OpenBookingUrl(p, n)
    \/ \E p \in Pages : PageMount(p)
    \/ \E p \in Pages : handleConfirmBooking(p)
    \/ \E p \in Pages, status \in {"completed", "failed"} :
          handlePaymentUpdate(p, status)
    \/ \E p \in Pages : TimerFire(p)
    \/ \E r \in net : Serve(r)
    \/ \E r \in net, o \in Faults : NetFault(r, o)
    \/ \E r \in net : Complete(r)

SpecRoute == InitRoute /\ [][NextRoute]_vars

(* ---------------------------------------------------------------------- *)
(* SpecHook: one useBooking instance, its actions called in any order     *)
(* ---------------------------------------------------------------------- *)
\* the component that holds the instance
Caller == Form

hookOnly == << backendVars, pageVars, ml, apiVars, payVars, unrefetched >>

\* the BookingFormData values createBooking is called with
CreateInputs ==
    { FormattedData(fd) :
        fd \in { x \in FormInputs : FormValid(x) /\ ValidDate(x.appointmentDate) } }

\* clearState
clearState(h) ==
    /\ hook' = [hook EXCEPT ![h] = InitialHook]
    /\ detailsFrom' = [detailsFrom EXCEPT ![h] = 0]
    /\ UNCHANGED << hookOnly, net, nreq >>

\* createBooking up to its await
createBooking(h, data) ==
    /\ nreq < MaxHookReq
    /\ StartCall(h, "create", NoId, data, hook[h])
    /\ UNCHANGED << hookOnly, detailsFrom >>

\* confirmBooking up to its await
confirmBooking(h, id) ==
    /\ nreq < MaxHookReq
    /\ StartCall(h, "confirm", id, NoBody, hook[h])
    /\ UNCHANGED << hookOnly, detailsFrom >>

\* updatePayment up to its await
updatePayment(h, id, status) ==
    /\ nreq < MaxHookReq
    /\ StartCall(h, "payment", id, PaymentBody(status, nreq + 1), hook[h])
    /\ UNCHANGED << hookOnly, detailsFrom >>

\* getBookingDetails up to its await
getBookingDetails(h, id) ==
    /\ nreq < MaxHookReq
    /\ StartCall(h, "details", id, NoBody, hook[h])
    /\ UNCHANGED << hookOnly, detailsFrom >>

\* the rest of the action after the await: the second setState
Settle(r) ==
    /\ r \in net
    /\ r.op \in BookingOps
    /\ request(r.outcome).settled = "fulfilled"
    /\ net' = net \ {r}
    /\ hook' = [hook EXCEPT ![r.h] = HookSettle(@, r.op, request(r.outcome).value)]
    /\ detailsFrom' = HeldFrom(r)
    /\ UNCHANGED << hookOnly, nreq >>

InitHook ==
    /\ \E b \in InitBookings :
          /\ store = [n \in Slots |-> IF n = 1 THEN b ELSE NoBooking]
          /\ nbookings = IF b.exists THEN 1 ELSE 0
    /\ clock = 2
    /\ resolved = [n \in Slots |-> 0]
    /\ events = [n \in Slots |-> << >>]
    /\ hook = [h \in Hooks |-> InitialHook]
    /\ uuid = [p \in Pages |-> NoId]
    /\ mounted = [p \in Pages |-> FALSE]
    /\ paymentLoading = [p \in Pages |-> FALSE]
    /\ timers = [p \in Pages |-> 0]
    /\ sentPayments = {}
    /\ onSubmitCalls = EmptyBag
    /\ onPaymentUpdateCalls = EmptyBag
    /\ net = {}
    /\ nreq = 0
    /\ ml = InitialMagic
    /\ IdleApi
    /\ IdlePay

NextHook ==
    \/ clearState(Caller)
    \/ \E data \in CreateInputs : createBooking(Caller, data)
    \/ \E n \in Slots : confirmBooking(Caller, UuidOf(n))
    \/ \E n \in Slots, status \in {"completed", "failed"} :
          updatePayment(Caller, UuidOf(n), status)
    \/ \E n \in Slots : getBookingDetails(Caller, UuidOf(n))
    \/ \E r \in net : Serve(r)
    \/ \E r \in net, o \in Faults : NetFault(r, o)
    \/ \E r \in net : Settle(r)

SpecHook == InitHook /\ [][NextHook]_vars

(* ---------------------------------------------------------------------- *)
(* SpecPay: BookingCard and PaymentInterface                              *)
(* ---------------------------------------------------------------------- *)
otherVars == << resolved, events, hook, pageVars, net, nreq, ml, apiVars,
               detailsFrom, unrefetched >>

\* BookingCard: the Complete Payment button is rendered (onPayment is given)
CompletePaymentButton(b) == b.paymentStatus = "pending"

\* the user clicks Complete Payment on the card of the booking in slot n
BookingCardPayment(n) ==
    /\ store[n].exists
    /\ CompletePaymentButton(store[n])
    /\ onPaymentCalls' = onPaymentCalls \cup
            { [uuid |-> store[n].id, status |-> store[n].status,
               paymentStatus |-> store[n].paymentStatus] }
    /\ UNCHANGED << backendVars, otherVars, processing, paymentMethod,
                    cardFilled, payTimers, attempts, onPaymentCompleteCalls,
                    onCancelCalls >>

PaymentMethods == {"card", "paypal"}

\* the payment method buttons
setPaymentMethod(m) ==
    /\ paymentMethod # m
    /\ paymentMethod' = m
    /\ UNCHANGED << backendVars, otherVars, processing, cardFilled, payTimers,
                    attempts, onPaymentCompleteCalls, onCancelCalls,
                    onPaymentCalls >>

\* the user fills in, or empties, the required card inputs
setCardDetails(filled) ==
    /\ paymentMethod = "card"
    /\ cardFilled # filled
    /\ cardFilled' = filled
    /\ UNCHANGED << backendVars, otherVars, processing, paymentMethod, payTimers,
                    attempts, onPaymentCompleteCalls, onCancelCalls,
                    onPaymentCalls >>

\* the browser submits the form: the submit button is enabled and the
\* required inputs that are rendered are filled
SubmitAccepted ==
    /\ ~processing
    /\ paymentMethod = "card" => cardFilled

\* a form that is submitted whatever the submit button shows
handlePaymentWhileProcessing ==
    /\ paymentMethod = "card" => cardFilled
    /\ attempts < MaxAttempts
    /\ attempts' = attempts + 1
    /\ processing' = TRUE
    /\ payTimers' = payTimers \cup { attempts + 1 }
    /\ UNCHANGED << backendVars, otherVars, paymentMethod, cardFilled,
                    onPaymentCompleteCalls, onCancelCalls, onPaymentCalls >>

\* handlePayment: setProcessing(true) and setTimeout
handlePayment ==
    /\ SubmitAccepted
    /\ attempts < MaxAttempts
    /\ attempts' = attempts + 1
    /\ processing' = TRUE
    /\ payTimers' = payTimers \cup { attempts + 1 }
    /\ UNCHANGED << backendVars, otherVars, paymentMethod, cardFilled,
                    onPaymentCompleteCalls, onCancelCalls, onPaymentCalls >>

\* the payment id the timeout callback generates: fresh on every call
PaymentIdOf(k) == << "payment", k >>

\* the setTimeout callback of attempt a
PaymentTimeout(a) ==
    /\ a \in payTimers
    /\ payTimers' = payTimers \ {a}
    /\ onPaymentCompleteCalls' = onPaymentCompleteCalls \cup
            { [attempt |-> a,
               paymentId |-> PaymentIdOf(Cardinality(onPaymentCompleteCalls) + 1)] }
    /\ processing' = FALSE
    /\ UNCHANGED << backendVars, otherVars, paymentMethod, cardFilled, attempts,
                    onCancelCalls, onPaymentCalls >>

\* the Cancel button: onCancel()
Cancel ==
    /\ onCancelCalls' = onCancelCalls \cup payTimers
    /\ UNCHANGED << backendVars, otherVars, processing, paymentMethod,
                    cardFilled, payTimers, attempts, onPaymentCompleteCalls,
                    onPaymentCalls >>

InitPay ==
    /\ \E b \in InitBookings :
          /\ store = [n \in Slots |-> IF n = 1 THEN b ELSE NoBooking]
          /\ nbookings = IF b.exists THEN 1 ELSE 0
    /\ clock = 2
    /\ resolved = [n \in Slots |-> 0]
    /\ events = [n \in Slots |-> << >>]
    /\ hook = [h \in Hooks |-> InitialHook]
    /\ uuid = [p \in Pages |-> NoId]
    /\ mounted = [p \in Pages |-> FALSE]
    /\ paymentLoading = [p \in Pages |-> FALSE]
    /\ timers = [p \in Pages |-> 0]
    /\ sentPayments = {}
    /\ onSubmitCalls = EmptyBag
    /\ onPaymentUpdateCalls = EmptyBag
    /\ net = {}
    /\ nreq = 0
    /\ ml = InitialMagic
    /\ IdleApi
    /\ IdlePay

NextPay ==
    \/ \E n \in Slots : BookingCardPayment(n)
    \/ \E n \in Slots, to \in BookingStatuses : Transition(n, to)
    \/ \E m \in PaymentMethods : setPaymentMethod(m)
    \/ \E filled \in BOOLEAN : setCardDetails(filled)
    \/ handlePayment
    \/ \E a \in 1 .. MaxAttempts : PaymentTimeout(a)
    \/ Cancel

SpecPay == InitPay /\ [][NextPay]_vars

\* a timeout that was set fires
FairSpecPay ==
    SpecPay /\ WF_vars(\E a \in 1 .. MaxAttempts : PaymentTimeout(a))

(* ---------------------------------------------------------------------- *)
(* Properties                                                             *)
(* ---------------------------------------------------------------------- *)
\* the requests of one kind issued by the current step
Sent(op) == { r \in net' \ net : r.op = op /\ r.outcome.kind = "pending" }

\* the requests whose action finishes in the current step
Finished == { r \in net : \A q \in net' : q.id # r.id \/ q.h # r.h \/ q.op # r.op }

\* C1: every confirm request a BookingDetails view sends is for a booking
\* whose held status is pending_confirmation, and every change of a stored
\* status follows the status graph, so nothing leaves completed or cancelled.
C1_ConfirmOnlyPending ==
    [][ /\ \A r \in Sent("confirm") :
              /\ hook[r.h].bookingDetails # None
              /\ Held(r.h).status = "pending_confirmation"
        /\ \A n \in Slots :
              (store[n].exists /\ store'[n].status # store[n].status)
                  => << store[n].status, store'[n].status >> \in StatusEdges
      ]_vars

\* a confirm request is in flight from a view that holds a pending booking
C1_Witness ==
    \E r \in net : /\ r.op = "confirm"
                   /\ r.outcome.kind = "pending"
                   /\ hook[r.h].bookingDetails # None
                   /\ Held(r.h).status = "pending_confirmation"

\* C2 as stated: every payment status change the client requests is an edge
\* of the paymentStatus graph from the held paymentStatus.
C2_RequestsAlongGraph ==
    [][ \A r \in Sent("payment") :
            << Held(r.h).paymentStatus, r.body.paymentStatus >> \in PaymentEdges
      ]_vars

\* C2 amended: every payment update the client sends asks for completed or
\* failed, directly from a held paymentStatus of pending.
C2_RequestsFromPending ==
    [][ \A r \in Sent("payment") :
            /\ Held(r.h).paymentStatus = "pending"
            /\ r.body.paymentStatus \in {"completed", "failed"}
      ]_vars

\* a payment update is in flight
C2_Witness ==
    \E r \in net : /\ r.op = "payment"
                   /\ r.outcome.kind = "pending"
                   /\ Held(r.h).paymentStatus = "pending"

\* C3: the step in which a useBooking action ends in failure leaves
\* bookingDetails and bookingResponse as they were, sets a non-empty error
\* and sets success to false.
C3_FailureKeepsData ==
    [][ \A r \in Finished :
            ~HookSucceeds(r.op, request(r.outcome).value) =>
                /\ hook'[r.h].bookingDetails = hook[r.h].bookingDetails
                /\ hook'[r.h].bookingResponse = hook[r.h].bookingResponse
                /\ ~Falsy(hook'[r.h].error)
                /\ hook'[r.h].success = FALSE
                /\ hook'[r.h].loading = FALSE
      ]_vars

\* an action has failed on a view that still holds the booking it fetched
C3_Witness ==
    \E p \in Pages : /\ ~Falsy(hook[p].error)
                     /\ ~hook[p].success
                     /\ hook[p].bookingDetails # None

\* the transport outcomes that are failures
FailureOutcome(o) ==
    \/ o.kind \in {"reject", "nonjson"}
    \/ o.kind = "json" /\ ~HttpOk(o.status)

\* C4: for every endpoint, when fetch rejects, the body is not JSON or the
\* HTTP status is not OK, the promise of request never rejects and resolves
\* to a value with success false and a non-empty error string.
C4_TypedFailure ==
    /\ apiOut.settled # "rejected"
    /\ (apiOut.settled = "pending" /\ FailureOutcome(apiIn.outcome))
           => ENABLED ApiRequest
    /\ (apiOut.settled = "fulfilled" /\ FailureOutcome(apiIn.outcome))
           => /\ ~apiOut.value.isNull
              /\ apiOut.value.success = FALSE
              /\ ~Falsy(apiOut.value.error)

\* a non-OK response whose body carries an empty error has been turned
\* into a failure
C4_Witness ==
    /\ apiOut.settled = "fulfilled"
    /\ apiIn.outcome.kind = "json"
    /\ ~HttpOk(apiIn.outcome.status)
    /\ ~apiIn.outcome.body.isNull
    /\ apiIn.outcome.body.error = ""

\* the payment fields of a body and of a stored booking
PaymentFields(x, amount) ==
    << x.paymentStatus, x.paymentId, amount, IF "currency" \in DOMAIN x
                                              THEN x.currency
                                              ELSE x.paymentCurrency >>

\* C5: the paymentStatus, paymentId, amount and currency a booking ends
\* with all come from one single update request, also when a completed and
\* a failed update are in flight together; each request carries them in one
\* body.
C5_NoTornPayment ==
    \A n \in Slots :
        (store[n].exists /\ store[n].paymentUpdatedAt # 0) =>
            \E body \in sentPayments :
                PaymentFields(body, body.amount)
                    = PaymentFields(store[n], store[n].paymentAmount)

\* a completed and a failed update were in flight together and both are
\* answered
C5_Witness ==
    \E r1, r2 \in net :
        /\ r1.op = "payment" /\ r2.op = "payment"
        /\ r1.key = r2.key
        /\ r1.body.paymentStatus = "completed"
        /\ r2.body.paymentStatus = "failed"
        /\ r1.outcome.kind = "json" /\ r2.outcome.kind = "json"
        /\ \E n \in Slots : store[n].exists /\ store[n].paymentStatus = "failed"

\* the answer the back end gives a request in the current step
AnswerOf(r) == { q.outcome : q \in { x \in net' : /\ x.id = r.id /\ x.h = r.h
                                                 /\ x.op = r.op } }

\* C6: a confirm request served for an already confirmed booking returns
\* success and leaves confirmedAt and status as the first confirm left them.
C6_ReconfirmIdempotent ==
    [][ \A r \in net :
            ( /\ Serve(r)
              /\ r.op = "confirm"
              /\ SlotOfUuid(r.key) # 0
              /\ store[SlotOfUuid(r.key)].status = "confirmed" )
            => /\ AnswerOf(r) = { Success(None) }
               /\ store'[SlotOfUuid(r.key)].status = "confirmed"
               /\ store'[SlotOfUuid(r.key)].confirmedAt
                      = store[SlotOfUuid(r.key)].confirmedAt
      ]_vars

\* two confirm requests for one booking have both been answered with success
C6_Witness ==
    \E r1, r2 \in net :
        /\ r1.op = "confirm" /\ r2.op = "confirm"
        /\ r1.id # r2.id
        /\ r1.key = r2.key
        /\ r1.outcome = Success(None) /\ r2.outcome = Success(None)

\* the access fields of every booking are left alone by the current step
AccessUnchanged ==
    \A n \in Slots : /\ store'[n].accessCount = store[n].accessCount
                     /\ store'[n].lastAccessedAt = store[n].lastAccessedAt

\* C7: previewMagicLink issues only the read request to the preview
\* endpoint, never a track or redirect request, and neither the call, nor
\* the serving of its request, nor its completion changes accessCount or
\* lastAccessedAt of any booking.
C7_PreviewReadOnly ==
    [][ /\ (\E token \in Tokens : previewMagicLink(token))
             => /\ \A r \in net' \ net : r.op = "preview"
                /\ AccessUnchanged
        /\ \A r \in net :
             (r.h = MagicHook /\ ~(r.op \in {"track", "analytics"})
                  /\ (ServeMagic(r) \/ CompleteMagic(r)))
             => AccessUnchanged
      ]_vars

\* a preview was delivered for a booking that had been accessed before, and
\* the count is still the number of resolves
C7_Witness ==
    /\ ml.preview # None
    /\ \E n \in Slots : /\ store[n].exists
                        /\ store[n].accessCount = 1
                        /\ ml.preview[1].bookingDetails.accessCount = 1

\* C8: every resolve of a known token adds exactly 1 to the booking's
\* accessCount, so the count equals the number of resolves served also when
\* resolves of one token are in flight together, and no step decreases it.
C8_AccessCountExact ==
    /\ [](\A n \in Slots : store[n].accessCount = resolved[n])
    /\ [][ /\ \A n \in Slots : store'[n].accessCount >= store[n].accessCount
           /\ \A r \in net :
                (ServeMagic(r) /\ r.op = "resolve" /\ SlotOfToken(r.key) # 0)
                => store'[SlotOfToken(r.key)].accessCount
                       = store[SlotOfToken(r.key)].accessCount + 1
         ]_vars

\* two resolves of one token were in flight together and both are served
C8_Witness ==
    \E r1, r2 \in net :
        /\ r1.op = "resolve" /\ r2.op = "resolve"
        /\ r1.id # r2.id
        /\ r1.key = r2.key
        /\ r1.outcome.kind = "json" /\ r2.outcome.kind = "json"
        /\ SlotOfToken(r1.key) # 0
        /\ store[SlotOfToken(r1.key)].accessCount = 2

\* the promise of trackEvent: its catch block swallows a rejection
TrackEventPromise(p) == IF p.settled = "pending" THEN "pending" ELSE "fulfilled"

\* C9: for every outcome of the track request, trackEvent resolves without
\* throwing, and neither the call nor its completion changes loading,
\* error, preview or analytics of the hook.
C9_TrackingSilent ==
    [][ /\ (\E token \in Tokens, kind \in EventKinds : trackEvent(token, kind))
             => ml' = ml
        /\ \A r \in net :
             (r.h = MagicHook /\ r.op = "track" /\ r.outcome.kind # "pending"
                  /\ r.outcome.kind # "hang")
             => /\ TrackEventPromise(request(r.outcome)) = "fulfilled"
                /\ ENABLED CompleteMagic(r)
                /\ CompleteMagic(r) => ml' = ml
      ]_vars

\* a track request has failed while the hook holds a preview
C9_Witness ==
    /\ \E r \in net : /\ r.op = "track"
                      /\ FailureOutcome(r.outcome)
    /\ ml.preview # None

(* ---------------------------------------------------------------------- *)
(* FairSpec: Spec with the scheduling the event loop guarantees           *)
(* ---------------------------------------------------------------------- *)
\* a settled promise runs its continuation, a due timer fires, an effect
\* runs after mount, and the transport gives every request some outcome,
\* one of which is never to answer
FairSpec ==
    /\ Spec
    /\ WF_vars(\E r \in net : Complete(r))
    /\ WF_vars(\E p \in Pages : TimerFire(p))
    /\ WF_vars(\E p \in Pages : PageMount(p))
    /\ WF_vars(\E r \in net : Serve(r) \/ \E o \in Faults : NetFault(r, o))

\* C10: every action started through useBooking eventually completes and
\* sets loading back to false, also when the back end never answers.
C10_LoadingEnds ==
    \A h \in Hooks : hook[h].loading ~> ~hook[h].loading

(* ---------------------------------------------------------------------- *)
(* Booking creation and BookingForm                                       *)
(* ---------------------------------------------------------------------- *)
\* the payment fields a booking has before its first payment update
NoPaymentFields(b) ==
    /\ b.paymentId = NoNum
    /\ b.paymentAmount = NoNum
    /\ b.paymentCurrency = Null

\* C11: the step that creates a booking stores it with status
\* pending_confirmation, paymentStatus pending, accessCount 0, a bookingId
\* and a magicLinkId, and without confirmedAt and payment fields; confirmedAt
\* is first set only by the step that confirms the booking, and the payment
\* fields only by a step that changes its paymentStatus.
C11_NewBookingDefaults ==
    [][ \A n \in Slots :
            /\ ~store[n].exists /\ store'[n].exists =>
                  /\ store'[n].status = "pending_confirmation"
                  /\ store'[n].paymentStatus = "pending"
                  /\ store'[n].accessCount = 0
                  /\ store'[n].bookingId # NoId
                  /\ store'[n].magicLinkId # NoId
                  /\ store'[n].confirmedAt = 0
                  /\ NoPaymentFields(store'[n])
            /\ store[n].exists /\ store[n].confirmedAt = 0
                             /\ store'[n].confirmedAt # 0 =>
                  /\ store[n].status = "pending_confirmation"
                  /\ store'[n].status = "confirmed"
            /\ store[n].exists /\ NoPaymentFields(store[n])
                             /\ ~NoPaymentFields(store'[n]) =>
                  store'[n].paymentStatus # store[n].paymentStatus
      ]_vars

\* the form has created a booking, which is still as created
C11_Witness ==
    \E n \in Slots :
        /\ store[n].exists
        /\ hook[Form].bookingResponse # None
        /\ hook[Form].bookingResponse[1].uuid = store[n].id
        /\ store[n].status = "pending_confirmation"
        /\ store[n].confirmedAt = 0
        /\ NoPaymentFields(store[n])

ApiAppointmentTypes ==
    {"consultation", "tutorial", "assessment", "group_session", "workshop"}

\* C13: the appointmentType of every create request the client sends is one
\* of consultation, tutorial, assessment, group_session, workshop.
C13_TypeInEnumeration ==
    \A r \in net : r.op = "create" => r.body.appointmentType \in ApiAppointmentTypes

\* an ISO timestamp as toISOString returns it
IsoTimestamp(str) == str \in {"2025-03-01T10:00:00.000Z"}

\* C14: the appointmentDate of every create request and of every onSubmit
\* call is an ISO timestamp, the one the form value converts to; a submit
\* whose date does not parse sends no request and calls no onSubmit.
C14_DateParsedOrNothing ==
    [][ /\ \A r \in Sent("create") : IsoTimestamp(r.body.appointmentDate)
        /\ \A data \in BagToSet(onSubmitCalls') : IsoTimestamp(data.appointmentDate)
        /\ \A r \in Sent("create") :
              \A fd \in AllFormInputs :
                  handleSubmit(fd) =>
                    /\ fd.appointmentDate # "not a date"
                    /\ fd.appointmentDate = "2025-03-01T10:00" =>
                          r.body.appointmentDate = "2025-03-01T10:00:00.000Z"
        /\ onSubmitCalls' # onSubmitCalls =>
              \A fd \in AllFormInputs :
                  fd.appointmentDate = "not a date" => ~handleSubmit(fd)
      ]_vars

\* a create request carries the converted date of the form
C14_Witness ==
    \E r \in net : /\ r.op = "create"
                   /\ r.body.appointmentDate = "2025-03-01T10:00:00.000Z"

(* ---------------------------------------------------------------------- *)
(* The booking page                                                       *)
(* ---------------------------------------------------------------------- *)
\* C15: every detail, confirm and payment request of the booking page names
\* the booking by its internal uuid, also on a page opened through the
\* redirect target of a magic link.
C15_PageUsesUuid ==
    \A r \in net :
        r.op \in {"details", "confirm", "payment"} =>
            \E n \in Slots : store[n].exists /\ r.key = store[n].id

\* C16: whenever the hook of a BookingDetails holds an error and is not
\* loading, the component renders the error view, also while it still holds
\* the bookingDetails of an earlier fetch.
C16_ErrorViewOnError ==
    \A p \in Pages :
        hook[p].error # Null /\ ~hook[p].loading => View(hook[p]) = "error"

\* an action failed on a page that holds booking data of an earlier fetch
C16_Witness ==
    \E p \in Pages : /\ hook[p].error # Null
                     /\ ~hook[p].loading
                     /\ hook[p].bookingDetails # None

\* the create call of a submission returned success = true with data
CreateReturnedData(r) ==
    LET resp == request(r.outcome).value
    IN  /\ ~resp.isNull
        /\ resp.success
        /\ resp.data # None

\* C17: the step in which the create call of a submission returns shows the
\* success panel exactly if it returned success = true with data, and the
\* error panel otherwise; the error panel is shown exactly when error is
\* non-null, never together with the success panel; a submit removes both
\* panels, and no other step changes them.
C17_PanelsFollowSubmission ==
    [][ /\ \A r \in Finished :
              r.h = Form =>
                /\ SuccessPanel(hook'[Form]) <=> CreateReturnedData(r)
                /\ ErrorPanel(hook'[Form]) <=> ~CreateReturnedData(r)
        /\ SuccessPanel(hook'[Form]) \/ ErrorPanel(hook'[Form]) =>
                ~(\E fd \in AllFormInputs : handleSubmit(fd))
        /\ ErrorPanel(hook'[Form]) <=> hook'[Form].error # Null
        /\ ~(SuccessPanel(hook'[Form]) /\ ErrorPanel(hook'[Form]))
        /\ \/ SuccessPanel(hook'[Form]) # SuccessPanel(hook[Form])
           \/ ErrorPanel(hook'[Form]) # ErrorPanel(hook[Form])
           => \/ \E r \in Finished : r.h = Form
              \/ \E fd \in AllFormInputs : handleSubmit(fd)
      ]_vars

\* the success panel shows the magic link of the booking just created
C17_Witness ==
    /\ SuccessPanel(hook[Form])
    /\ \E n \in Slots : /\ store[n].exists
                         /\ hook[Form].bookingResponse[1].magicLink
                                = store[n].magicLinkId
    /\ onSubmitCalls # EmptyBag

\* C18: onSubmit is invoked only in the step in which the create request of
\* the submission completes with a created booking.
C18_OnSubmitAfterCreation ==
    [][ onSubmitCalls' # onSubmitCalls =>
            \E r \in Finished : /\ r.op = "create"
                                /\ CreateReturnedData(r)
      ]_vars

\* C19: while a request started through a useBooking instance is in flight,
\* the loading flag of that instance is true.
C19_LoadingWhileInFlight ==
    \A h \in Hooks : (\E r \in net : r.h = h) => hook[h].loading

\* C20: onPaymentUpdate(uuid, status) is invoked only in the step in which
\* the payment update request of that uuid to that status completes with
\* success.
C20_OnPaymentUpdateAfterSuccess ==
    [][ onPaymentUpdateCalls' # onPaymentUpdateCalls =>
            \E r \in Finished :
                /\ r.op = "payment"
                /\ ~request(r.outcome).value.isNull
                /\ request(r.outcome).value.success
                /\ onPaymentUpdateCalls' =
                      onPaymentUpdateCalls
                        (+) SetToBag({ << r.key, r.body.paymentStatus >> })
      ]_vars

(* ---------------------------------------------------------------------- *)
(* Payment actions                                                        *)
(* ---------------------------------------------------------------------- *)
\* C21: a payment action is taken only on a booking shown as confirmed with
\* paymentStatus pending: every payment update BookingDetails sends, and
\* every onPayment call of BookingCard.
C21_PaymentOnlyWhenConfirmed ==
    [][ /\ \A r \in Sent("payment") :
              /\ Held(r.h).status = "confirmed"
              /\ Held(r.h).paymentStatus = "pending"
        /\ \A c \in onPaymentCalls' \ onPaymentCalls :
              /\ c.status = "confirmed"
              /\ c.paymentStatus = "pending"
      ]_vars

\* C22: every payment update BookingDetails sends carries a paymentId; one
\* that asks for completed carries amount 100 and currency USD, one that asks
\* for failed carries neither amount nor currency.
C22_PaymentBodyFields ==
    [][ \A r \in Sent("payment") :
            /\ r.body.paymentId # NoNum
            /\ r.body.paymentStatus = "completed" =>
                  /\ r.body.amount = 100
                  /\ r.body.currency = "USD"
            /\ r.body.paymentStatus = "failed" =>
                  /\ r.body.amount = NoNum
                  /\ r.body.currency = Null
      ]_vars

\* a completed and a failed update have both been sent
C22_Witness ==
    /\ \E body \in sentPayments : body.paymentStatus = "completed"
    /\ \E body \in sentPayments : body.paymentStatus = "failed"

(* ---------------------------------------------------------------------- *)
(* useBooking under any order of calls                                    *)
(* ---------------------------------------------------------------------- *)
\* C23: in no state of a useBooking instance does success = true hold
\* together with a non-null error.
C23_SuccessExcludesError ==
    \A h \in Hooks : ~(hook[h].success /\ hook[h].error # Null)

\* an action of the instance has failed while the success response of
\* another of its actions is still to be applied
C23_Witness ==
    /\ hook[Caller].error # Null
    /\ ~hook[Caller].success
    /\ \E r \in net : /\ r.h = Caller
                       /\ r.outcome.kind = "json"
                       /\ r.outcome.status = 200

\* C26: a useBooking instance whose state equals the initial state, as
\* after clearState, keeps that state until one of its actions is started;
\* the completion of a request started earlier does not change it.
C26_ClearedUntilNewAction ==
    [][ \A h \in Hooks :
            hook[h] = InitialHook /\ hook'[h] # InitialHook =>
                \E r \in net' \ net : r.h = h
      ]_vars

\* C24: the response of a getBookingDetails request replaces the held
\* bookingDetails only when that request was started after the request whose
\* response is held: an older request never overwrites a newer one.
C24_NewestDetailsHeld ==
    [][ \A r \in net \ net' :
            r.op = "details" /\ detailsFrom'[r.h] = r.id =>
                r.id > detailsFrom[r.h]
      ]_vars

\* C25: a view that has received a success response to a confirm (to a
\* payment update) sends no further confirm (payment update) until a later
\* getBookingDetails response has replaced the details it holds.
C25_NoRepeatBeforeRefetch ==
    [][ \A r \in Sent("confirm") \cup Sent("payment") :
            r.op \notin unrefetched[r.h]
      ]_vars

\* C27: when a confirm or a payment action of a view returns, with success
\* or with an error, the view schedules one refetch and, for a payment,
\* sets paymentLoading to false; a scheduled refetch is consumed only by
\* sending getBookingDetails for the uuid of the view, and every scheduled
\* refetch is eventually sent (as long as the request budget lasts).
C27_RefetchAfterAction ==
    /\ [][ /\ \A r \in Finished :
                r.op \in {"confirm", "payment"} =>
                    /\ timers'[r.h] = timers[r.h] + 1
                    /\ r.op = "payment" => ~paymentLoading'[r.h]
           /\ \A p \in Pages :
                timers'[p] < timers[p] =>
                    \E r \in Sent("details") : r.h = p /\ r.key = uuid[p]
         ]_vars
    /\ \A p \in Pages :
          (timers[p] > 0) ~> (timers[p] = 0 \/ nreq = MaxReq)

\* a view holds the response to its first request, its action, the second
\* request, has failed, paymentLoading is false and the refetch of the
\* view, the third request, is on its way
C27_Witness ==
    \E p \in Pages :
        /\ nreq = 3 /\ detailsFrom[p] = 1
        /\ timers[p] = 0 /\ ~paymentLoading[p]
        /\ unrefetched[p] = {}
        /\ \E r \in net : r.h = p /\ r.op = "details" /\ r.key = uuid[p]
        /\ \A r \in net : r.h = p /\ r.id = 3

\* the onPaymentComplete calls made for attempt a
CompletionsOf(a) == { c \in onPaymentCompleteCalls : c.attempt = a }

\* C28: in PaymentInterface every accepted submit leads to exactly one
\* onPaymentComplete call, each with a payment id of its own; processing is
\* true exactly from the submit until that call, and a submit is accepted
\* only while processing is false.
C28_OneCompletionPerSubmit ==
    /\ [](processing <=> payTimers # {})
    /\ [](\A a \in 1 .. MaxAttempts :
            Cardinality(CompletionsOf(a)) =
                IF a <= attempts /\ a \notin payTimers THEN 1 ELSE 0)
    /\ [](\A c, d \in onPaymentCompleteCalls :
            c.paymentId = d.paymentId => c = d)
    /\ [][attempts' # attempts => ~processing /\ processing']_vars
    /\ \A a \in 1 .. MaxAttempts :
          (a \in payTimers) ~> (CompletionsOf(a) # {} /\ a \notin payTimers)

\* two submits were accepted one after the other and each has had its call
C28_Witness ==
    /\ attempts = 2 /\ ~processing
    /\ CompletionsOf(1) # {} /\ CompletionsOf(2) # {}

\* C29: once onCancel has been invoked during a payment attempt,
\* onPaymentComplete is not invoked for that attempt.
C29_NoCompletionAfterCancel ==
    [][ \A c \in onPaymentCompleteCalls' \ onPaymentCompleteCalls :
            c.attempt \notin onCancelCalls
      ]_vars

\* C30: for a non-OK HTTP response the error string request returns is the
\* error field of the response body when the body has a non-empty one and
\* "HTTP error! status: <status>" otherwise; for an OK response with a JSON
\* body the parsed body is returned unchanged.
C30_ErrorOfNonOkResponse ==
    apiOut.settled = "fulfilled" =>
        LET o == apiIn.outcome
        IN  /\ (o.kind \in {"json", "nonjson"} /\ ~HttpOk(o.status)) =>
                   apiOut.value.error =
                       IF o.kind = "json" /\ ~o.body.isNull /\ ~Falsy(o.body.error)
                       THEN o.body.error
                       ELSE HttpErrorMessage(o.status)
            /\ (o.kind = "json" /\ HttpOk(o.status)) => apiOut.value = o.body

============================================================================
